---- MODULE Spec2Model ----
(***************************************************************************)
(* Request pipeline and streaming re-framing layer of the CA assistant     *)
(* worker.  The repository holds five variants of the same worker:         *)
(*   "index_raw"  src/src/index.ts 1-193    raw backend stream forwarded   *)
(*   "index_hist" src/src/index.ts 195-416  history, binding retrieval     *)
(*   "part_000"   src/unnamed/part_000      history, REST retrieval        *)
(*   "part_001"   src/unnamed/part_001      single model, extractText      *)
(*   "part_002"   src/unnamed/part_002      relevance filter, hard stop    *)
(* One behaviour of the model is one request handled by one variant.       *)
(* Text is a sequence of one-character strings.                            *)
(***************************************************************************)
EXTENDS Integers, Sequences, FiniteSets, TLC

VARIABLES variant, req, pc, resp, embedCalls, retrievalCalls, genCalls,
          retrievalOutcome, vectors, genError, answer, units, src, consumed,
          pending, fullAnswer, frames, tier, model, matches, context,
          messages, clientGone, writtenAtDrop, reader, delivered, aiResult,
          cvariant, cpc, isProcessing, disabled, inputValue, triggers, sent,
          inFlight, wire, rpos, cpending, buffer, finalText, csources, atDone,
          shown, lastCall, shownSources

\* the state of the page script public/chat.js and of its one response
clientVars ==
    <<cvariant, cpc, isProcessing, disabled, inputValue, triggers, sent,
      inFlight, wire, rpos, cpending, buffer, finalText, csources, atDone,
      shown, lastCall, shownSources>>

vars == <<variant, req, pc, resp, embedCalls, retrievalCalls, genCalls,
          retrievalOutcome, vectors, genError, answer, units, src, consumed,
          pending, fullAnswer, frames, tier, model, matches, context,
          messages, clientGone, writtenAtDrop, reader, delivered, aiResult,
          clientVars>>

(* ------------------------------ bounds -------------------------------- *)

\* longest generated answer drawn from the full alphabet
MaxAnswerLen == 3
\* longest backend byte stream of the raw variant
MaxBytes == 3
\* most matches the vector index returns
MaxMatches == 2

(* ------------------------------- text --------------------------------- *)

Variants == {"index_raw", "index_hist", "part_000", "part_001", "part_002"}

\* variants whose retrieveVectors calls the REST endpoint with fetch
RestVariants == {"index_raw", "part_000", "part_002"}

\* variants whose fetch wraps the chat pipeline in try/catch
CatchingVariants == {"index_hist", "part_000", "part_001", "part_002"}

\* variants that stream a complete text one character at a time
PerCharVariants == {"index_hist", "part_000", "part_001"}

Whitespace == {" ", "\n", "\t"}

\* the line terminators the regular expression dot does not match
LineTerminators == {"\n", "\r"}

\* String.prototype.repeat on a one-character string
Rep(c, n) == [i \in 1..n |-> c]

RECURSIVE Concat(_)
Concat(ss) == IF ss = <<>> THEN <<>> ELSE Head(ss) \o Concat(Tail(ss))

\* String.prototype.toLowerCase on the letters the model uses (the i flag)
LowerChar(c) ==
    CASE c = "A" -> "a" [] c = "C" -> "c" [] c = "T" -> "t" [] c = "S" -> "s"
      [] c = "B" -> "b" [] c = "Y" -> "y" [] c = "P" -> "p"
      [] OTHER -> c

Lower(s) == [i \in 1..Len(s) |-> LowerChar(s[i])]

\* s contains pat as a contiguous substring
Contains(s, pat) ==
    \E i \in 1..(Len(s) - Len(pat) + 1) : SubSeq(s, i, i + Len(pat) - 1) = pat

RECURSIVE TrimLeft(_)
TrimLeft(s) ==
    IF s # <<>> /\ Head(s) \in Whitespace THEN TrimLeft(Tail(s)) ELSE s

RECURSIVE TrimRight(_)
TrimRight(s) ==
    IF s # <<>> /\ s[Len(s)] \in Whitespace
    THEN TrimRight(SubSeq(s, 1, Len(s) - 1)) ELSE s

\* String.prototype.trim
Trim(s) == TrimRight(TrimLeft(s))

(* ------------------------------ guards -------------------------------- *)

pIgnoreSystem == <<"i","g","n","o","r","e"," ","s","y","s","t","e","m">>
pBypass == <<"b","y","p","a","s","s">>
pActAs == <<"a","c","t"," ","a","s">>
pOverride == <<"o","v","e","r","r","i","d","e">>

\* the alternatives of the injection regular expression of each variant
InjectionPatterns(v) ==
    IF v = "part_002" THEN {pIgnoreSystem, pBypass, pOverride, pActAs}
    ELSE {pIgnoreSystem, pBypass, pActAs}

\* the same test without the i flag
detectPromptInjectionCaseSensitive(v, q) ==
    \E p \in InjectionPatterns(v) : Contains(q, p)

\* /(ignore system|bypass|act as)/i.test(q)
detectPromptInjection(v, q) ==
    \E p \in InjectionPatterns(v) : Contains(Lower(q), p)

(* ---------------------------- classifier ------------------------------ *)

kAppeal == <<"a","p","p","e","a","l">>
kItat == <<"i","t","a","t">>
kCit == <<"c","i","t">>
kTransferPricing ==
    <<"t","r","a","n","s","f","e","r"," ","p","r","i","c","i","n","g">>
kAudit == <<"a","u","d","i","t">>
kLitigation == <<"l","i","t","i","g","a","t","i","o","n">>
kNotice == <<"n","o","t","i","c","e">>
kComputation == <<"c","o","m","p","u","t","a","t","i","o","n">>
kAssessment == <<"a","s","s","e","s","s","m","e","n","t">>
kScrutiny == <<"s","c","r","u","t","i","n","y">>

\* the alternatives of the classification regular expression of each
\* variant; part_001 has no classifier
ComplexKeywords(v) ==
    CASE v = "index_raw" ->
            {kAppeal, kItat, kCit, kTransferPricing, kAudit, kLitigation,
             kNotice, kComputation}
      [] v \in {"index_hist", "part_000"} ->
            {kAppeal, kItat, kAudit, kNotice, kLitigation, kComputation,
             kTransferPricing}
      [] v = "part_002" ->
            {kAppeal, kItat, kNotice, kAssessment, kLitigation, kComputation,
             kTransferPricing, kScrutiny}
      [] OTHER -> {}

\* the same test without the i flag
classifyQueryCaseSensitive(v, q) ==
    IF \E k \in ComplexKeywords(v) : Contains(q, k)
    THEN "complex" ELSE "simple"

\* /(appeal|itat|...)/i.test(q) ? "complex" : "simple"
classifyQuery(v, q) ==
    IF \E k \in ComplexKeywords(v) : Contains(Lower(q), k)
    THEN "complex" ELSE "simple"

SCOUT_MODEL == "@cf/meta/llama-4-scout-17b-16e-instruct"
COMPLEX_MODEL == "@cf/meta/llama-3.3-70b-instruct-fp8-fast"
MODEL == "@cf/openai/gpt-oss-120b"

\* a table that sends every tier to the lightweight model
SelectModelFlat(t) == SCOUT_MODEL

\* classifyQuery(query) === "simple" ? SCOUT_MODEL : COMPLEX_MODEL
SelectModel(t) == IF t = "simple" THEN SCOUT_MODEL ELSE COMPLEX_MODEL

\* the tier and the model of a request: part_001 uses its one model
TierOf(v, q) == IF v = "part_001" THEN "none" ELSE classifyQuery(v, q)
ModelOf(v, q) == IF v = "part_001" THEN MODEL ELSE SelectModel(TierOf(v, q))

(* ------------------------------ inputs -------------------------------- *)

qGst == <<"g","s","t">>
qPadded == <<" ","g","s","t","\n">>
qBlank == <<" ","\t">>
qBypass == <<"B","y","P","a","s","s">>
qActAs == <<"x"," ","A","c","T"," ","a","S">>
qOverride == <<"o","v","e","r","r","i","d","e">>

Queries == {qGst, qPadded, qBlank, <<>>, qBypass, qActAs, qOverride}

\* the parsed JSON body: json is FALSE when req.json() rejects
\* body.history: absent, present but not an array, or an array of messages
NoHistory == [kind |-> "absent", items |-> <<>>]

NoBody ==
    [json |-> FALSE, hasQuery |-> FALSE, query |-> <<>>, history |-> NoHistory]
NoQuery ==
    [json |-> TRUE, hasQuery |-> FALSE, query |-> <<>>, history |-> NoHistory]
HistoryBody(q, h) ==
    [json |-> TRUE, hasQuery |-> TRUE, query |-> q, history |-> h]
QueryBody(q) == HistoryBody(q, NoHistory)

Bodies == {NoBody, NoQuery} \cup {QueryBody(q) : q \in Queries}

ChatPath == "/api/chat"

Requests ==
    {[method |-> "POST", path |-> ChatPath, body |-> b] : b \in Bodies}
    \cup {[method |-> m, path |-> ChatPath, body |-> QueryBody(qGst)] :
             m \in {"PUT", "DELETE"}}
    \cup {[method |-> "GET", path |-> p, body |-> NoBody] :
             p \in {ChatPath, "/"}}
    \cup {[method |-> "OPTIONS", path |-> p, body |-> b] :
             p \in {ChatPath, "/"}, b \in {NoBody, QueryBody(qBypass)}}
    \cup {[method |-> "POST", path |-> p, body |-> QueryBody(q)] :
             p \in {"/", "/api/chat/x"}, q \in {qGst, qBypass}}

\* VectorChunk: score (in hundredths) is optional, metadata is flattened
Chunk(hs, sc, so, sn, tx) ==
    [hasScore |-> hs, score |-> sc, source |-> so, text_snippet |-> sn,
     text |-> tx]

LongSnippet == Rep("x", 200)

cLong == Chunk(TRUE, 90, "s1", LongSnippet, <<>>)
cShort == Chunk(TRUE, 80, "s2", <<"a","b">>, <<>>)
cLow == Chunk(TRUE, 50, "s3", Rep("y", 200), <<>>)

Chunks == {cLong, cShort, cLow}

RECURSIVE SeqsUpTo(_, _)
SeqsUpTo(S, n) ==
    IF n = 0 THEN {<<>>}
    ELSE LET shorter == SeqsUpTo(S, n - 1)
         IN  shorter \cup {Append(s, x) : s \in shorter, x \in S}

MatchLists == SeqsUpTo(Chunks, MaxMatches)

\* what the REST vector endpoint can do to retrieveVectors
RestOutcomes ==
    {[kind |-> k, matches |-> <<>>] :
        k \in {"network", "unparsable", "failure"}}
    \cup {[kind |-> "ok", matches |-> m] : m \in MatchLists}

\* what VECTORIZE.query can do
QueryOutcomes ==
    {[kind |-> k, matches |-> <<>>] : k \in {"throws", "nomatches"}}
    \cup {[kind |-> "ok", matches |-> m] : m \in MatchLists}

AnswerAlphabet == {"a", "b", "\n"}

\* a text longer than one 40-character unit, and one with a newline inside
LongAnswer == [i \in 1..41 |-> IF i % 3 = 0 THEN "b" ELSE "a"]
LongLines == Rep("a", 40) \o <<"\n">> \o Rep("b", 2)

Answers == SeqsUpTo(AnswerAlphabet, MaxAnswerLen) \cup {LongAnswer, LongLines}

\* the value env.AI.run resolves to: which field carries the text
GenResults(v) ==
    {[field |-> "none", text |-> <<>>]}
    \cup {[field |-> "response", text |-> a] : a \in Answers}
    \cup (IF v = "part_001"
          THEN {[field |-> "output_text", text |-> a] :
                   a \in {<<>>, <<" ">>, <<"a", "b">>}}
          ELSE {})

GenFailures == {"timeout", "backend"}

\* bytes of the raw backend stream: "L" leads a two-byte character, "C"
\* continues one, every other byte is a one-byte character
ByteAlphabet == {"a", "L", "C"}
ByteStreams == SeqsUpTo(ByteAlphabet, MaxBytes)

(* ----------------------------- retrieval ------------------------------ *)

\* the relevance floor of part_002, in hundredths
ScoreFloor == 75

\* json.result.matches.filter(m => m.score === undefined || m.score > 0.75)
RelevanceFilter(ms) ==
    SelectSeq(ms, LAMBDA m : ~m.hasScore \/ m.score > ScoreFloor)

\* what retrieveVectors returns once the REST reply is parsed
RestMatches(v, o) ==
    IF o.kind # "ok" THEN <<>>
    ELSE IF v = "part_002" THEN RelevanceFilter(o.matches)
    ELSE o.matches

\* v.metadata.text_snippet || v.metadata.text || ""
SnippetOf(c) == IF c.text_snippet # <<>> THEN c.text_snippet ELSE c.text

RECURSIVE Join(_, _)
Join(ts, sep) ==
    IF ts = <<>> THEN <<>>
    ELSE IF Len(ts) = 1 THEN ts[1]
    ELSE ts[1] \o sep \o Join(Tail(ts), sep)

\* the texts seen at positions before i
SeenBefore(ts, i) == {ts[j] : j \in 1..(i - 1)}

\* a filter that drops the empty texts and keeps every repetition
KeepRepeats(ts, i) == SelectSeq(ts, LAMBDA t : t # <<>>)

RECURSIVE DedupFrom(_, _)
DedupFrom(ts, i) ==
    IF i > Len(ts) THEN <<>>
    ELSE IF ts[i] = <<>> \/ ts[i] \in SeenBefore(ts, i)
         THEN DedupFrom(ts, i + 1)
         ELSE <<ts[i]>> \o DedupFrom(ts, i + 1)

Separator(v) ==
    IF v = "part_002" THEN <<"\n","\n","-","-","-","\n","\n">>
    ELSE <<"\n","-","-","-","\n">>

buildContext(v, vs) ==
    LET texts == [i \in 1..Len(vs) |-> SnippetOf(vs[i])]
        kept == IF v = "part_002" THEN DedupFrom(texts, 1)
                ELSE IF v = "index_raw" THEN texts
                ELSE SelectSeq(texts, LAMBDA t : t # <<>>)
    IN  Join(kept, Separator(v))

\* the minimum context length of part_002
MinContext == 200

\* a worker without the hard stop
NeverInsufficient(v, vs) == FALSE

\* if (!context || context.length < 200): only part_002 has the hard stop
InsufficientContext(v, vs) ==
    v = "part_002" /\ Len(buildContext(v, vs)) < MinContext

(* ----------------------------- assembler ------------------------------ *)

\* variants whose fetch reads body.history
HistoryVariants == {"index_hist", "part_000", "part_001"}

\* the number of history messages kept
HistoryCap == 6

\* slice(0, n): the first n entries instead of the last n
SliceFirst(h, n) == SubSeq(h, 1, IF Len(h) > n THEN n ELSE Len(h))

\* Array.prototype.slice(-n)
SliceLast(h, n) ==
    SubSeq(h, (IF Len(h) > n THEN Len(h) - n ELSE 0) + 1, Len(h))

\* Array.isArray(body.history) ? body.history : []
HistoryOf(v, body) ==
    IF v \in HistoryVariants /\ body.history.kind = "array"
    THEN body.history.items ELSE <<>>

\* history.slice(-6)
trimmedHistory(v, body) == SliceLast(HistoryOf(v, body), HistoryCap)

\* a stand-in for the fixed prompt and its "Context" heading
PromptPrefix == <<"P", ":">>

\* [{role: "system", ...}, ...trimmedHistory, {role: "user", content: query}]
Assemble(v, body, ctx, q) ==
    <<[role |-> "system", content |-> PromptPrefix \o ctx]>>
    \o trimmedHistory(v, body)
    \o <<[role |-> "user", content |-> q]>>

(* ----------------------------- generation ----------------------------- *)

Fallback ==
    <<"U","n","a","b","l","e"," ","t","o"," ","g","e","n","e","r","a","t",
      "e"," ","a"," ","r","e","s","p","o","n","s","e",".">>

\* extractText of part_001: output_text, then response, each only when it
\* is not blank
extractText(r) ==
    IF r.field \in {"output_text", "response"} /\ Trim(r.text) # <<>>
    THEN r.text ELSE <<>>

\* the text handed to the stream stage
AnswerOf(v, r) ==
    IF v = "part_001"
    THEN IF extractText(r) # <<>> THEN extractText(r) ELSE Fallback
    ELSE IF r.field = "response" THEN r.text
    ELSE IF v = "part_002" THEN <<>>
    ELSE Fallback

\* the size of a unit of part_002
UnitSize == 40

\* answer.match(/.{1,40}/g) || []: greedy runs of at most 40 characters,
\* none of them a line terminator
RECURSIVE MatchUnits(_, _)
MatchUnits(s, cur) ==
    IF s = <<>> THEN (IF cur = <<>> THEN <<>> ELSE <<cur>>)
    ELSE IF Head(s) \in LineTerminators
         THEN (IF cur = <<>> THEN <<>> ELSE <<cur>>) \o MatchUnits(Tail(s), <<>>)
    ELSE IF Len(cur) = UnitSize
         THEN <<cur>> \o MatchUnits(Tail(s), <<Head(s)>>)
    ELSE MatchUnits(Tail(s), Append(cur, Head(s)))

\* for (const char of answer)
CharUnits(s) == [i \in 1..Len(s) |-> <<s[i]>>]

UnitsOf(v, a) ==
    IF v \in PerCharVariants THEN CharUnits(a) ELSE MatchUnits(a, <<>>)

(* ------------------------------ decoder ------------------------------- *)

\* TextDecoder.decode(value, {stream: true}) one byte at a time: pend holds
\* the bytes of an unfinished character, "E" is the two-byte character and
\* "?" the replacement character
DecodeByte(pend, b) ==
    IF pend = <<>>
    THEN CASE b = "L" -> [out |-> <<>>, pend |-> <<"L">>]
           [] b = "C" -> [out |-> <<"?">>, pend |-> <<>>]
           [] OTHER -> [out |-> <<b>>, pend |-> <<>>]
    ELSE CASE b = "C" -> [out |-> <<"E">>, pend |-> <<>>]
           [] b = "L" -> [out |-> <<"?">>, pend |-> <<"L">>]
           [] OTHER -> [out |-> <<"?", b>>, pend |-> <<>>]

RECURSIVE Decode(_, _)
Decode(pend, chunk) ==
    IF chunk = <<>> THEN [out |-> <<>>, pend |-> pend]
    ELSE IF Len(chunk) = 1 THEN DecodeByte(pend, chunk[1])
    ELSE LET h == Len(chunk) \div 2
             d == Decode(pend, SubSeq(chunk, 1, h))
             r == Decode(d.pend, SubSeq(chunk, h + 1, Len(chunk)))
         IN  [out |-> d.out \o r.out, pend |-> r.pend]

\* decoder.decode(value) without the stream flag: every chunk is decoded on
\* its own and an unfinished character becomes a replacement character
decodeChunkNoStream(pend, chunk) ==
    LET d == Decode(<<>>, chunk)
    IN  [out |-> d.out \o (IF d.pend = <<>> THEN <<>> ELSE <<"?">>),
         pend |-> <<>>]

\* decoder.decode(value, {stream: true}): the unfinished character is kept
\* for the next call
decodeChunk(pend, chunk) == Decode(pend, chunk)

(* ------------------------------ frames -------------------------------- *)

TokenFrame(t) == [type |-> "token", token |-> t]

\* vectors.map(v => ({source: v.metadata.source, snippet: v.metadata.text_snippet}))
SourcesOf(vs) ==
    [i \in 1..Len(vs) |-> [source |-> vs[i].source, snippet |-> vs[i].text_snippet]]

\* a done frame whose answer field is always empty
DoneFrameBlank(v, vs, full) ==
    [type |-> "done", sources |-> SourcesOf(vs), answer |-> <<>>]

\* only the raw variant puts the accumulated answer into the done frame
DoneFrame(v, vs, full) ==
    IF v = "index_raw"
    THEN [type |-> "done", sources |-> SourcesOf(vs), answer |-> full]
    ELSE [type |-> "done", sources |-> SourcesOf(vs)]

Sentinel == [type |-> "sentinel"]

(* ----------------------------- responses ------------------------------ *)

NoResponse == [status |-> 0, kind |-> "none", body |-> ""]
Preflight == [status |-> 204, kind |-> "preflight", body |-> ""]
NotFoundResponse == [status |-> 404, kind |-> "text", body |-> "Not Found"]

EmptyQueryResponse(v) ==
    IF v = "index_raw"
    THEN [status |-> 400, kind |-> "json", body |-> "{error: Empty query}"]
    ELSE [status |-> 400, kind |-> "text", body |-> "Empty query"]

ForbiddenResponse(v) ==
    IF v = "index_raw"
    THEN [status |-> 403, kind |-> "json", body |-> "{error: Forbidden}"]
    ELSE [status |-> 403, kind |-> "text", body |-> "Forbidden"]

InsufficientResponse ==
    [status |-> 200, kind |-> "json",
     body |-> "{answer: The provided context is insufficient to give a reliable answer.}"]

\* a reply that carries the result as one JSON body
JsonResponse == [status |-> 200, kind |-> "json", body |-> ""]

\* new Response(stream, {headers: {"Content-Type": "text/event-stream"}})
StreamResponse == [status |-> 200, kind |-> "sse", body |-> ""]

\* a catch block that answers with the message of the error
InternalErrorLeaky(err) == [status |-> 500, kind |-> "text", body |-> err]

\* catch (err) { ...; return new Response("Internal Error", {status: 500}) }
InternalError(err) == [status |-> 500, kind |-> "text", body |-> "Internal Error"]

\* index_raw has no try/catch: the rejection leaves fetch and the Workers
\* runtime answers with its own error page, status 500
Uncaught(err) == [status |-> 500, kind |-> "runtime", body |-> "Worker threw exception"]

\* the response to an exception thrown inside the chat pipeline
Thrown(v, err) == IF v \in CatchingVariants THEN InternalError(err) ELSE Uncaught(err)

(* ------------------------------ state --------------------------------- *)

\* chat.js once loaded: no request yet, input enabled and empty
PageLoaded ==
    /\ cpc = "idle"
    /\ isProcessing = FALSE
    /\ disabled = FALSE
    /\ inputValue = <<>>
    /\ triggers = 0
    /\ sent = 0
    /\ inFlight = 0
    /\ wire = <<>>
    /\ rpos = 0
    /\ cpending = <<>>
    /\ buffer = <<>>
    /\ finalText = <<>>
    /\ csources = <<>>
    /\ atDone = [seen |-> FALSE, text |-> <<>>, sources |-> <<>>]
    /\ shown = "none"
    /\ lastCall = [outcome |-> "none", busy |-> FALSE, query |-> <<>>]
    /\ shownSources = <<>>

Init ==
    /\ variant \in Variants
    /\ req \in Requests
    /\ pc = "recv"
    /\ resp = NoResponse
    /\ embedCalls = 0
    /\ retrievalCalls = 0
    /\ genCalls = 0
    /\ retrievalOutcome = "none"
    /\ vectors = <<>>
    /\ genError = "none"
    /\ answer = <<>>
    /\ units = <<>>
    /\ src = <<>>
    /\ consumed = 0
    /\ pending = <<>>
    /\ fullAnswer = <<>>
    /\ frames = <<>>
    /\ tier = "none"
    /\ model = "none"
    /\ matches = <<>>
    /\ context = <<>>
    /\ messages = <<>>
    /\ clientGone = FALSE
    /\ writtenAtDrop = 0
    /\ reader = "none"
    /\ aiResult = [field |-> "pending", text |-> <<>>]
    /\ cvariant = "chat_a"
    /\ PageLoaded
    /\ delivered = 0

\* the request passed routing and is handled as a chat request
ReachesChat == req.method # "OPTIONS" /\ req.path = ChatPath

\* !query, the test without the trim
QueryIsEmptyNoTrim == ~req.body.hasQuery \/ req.body.query = <<>>

\* !query?.trim()
QueryIsEmpty == ~req.body.hasQuery \/ Trim(req.body.query) = <<>>

\* the query the later stages see: index_raw and part_002 keep it untrimmed
QueryUsed ==
    IF variant \in {"index_raw", "part_002"} THEN req.body.query
    ELSE Trim(req.body.query)

Respond(r) == /\ resp' = r
              /\ pc' = "responded"

(* ------------------------------ routing ------------------------------- *)

OptionsPreflight ==
    /\ pc = "recv"
    /\ req.method = "OPTIONS"
    /\ Respond(Preflight)
    /\ UNCHANGED <<retrievalOutcome, variant, req, embedCalls, retrievalCalls,
                   genCalls, vectors, genError, answer, units, src, consumed,
                   pending, fullAnswer, frames, tier, model, context,
                   messages, matches, clientGone, reader, writtenAtDrop,
                   delivered, aiResult, clientVars>>

NotFound ==
    /\ pc = "recv"
    /\ req.method # "OPTIONS"
    /\ req.path # ChatPath
    /\ Respond(NotFoundResponse)
    /\ UNCHANGED <<retrievalOutcome, variant, req, embedCalls, retrievalCalls,
                   genCalls, vectors, genError, answer, units, src, consumed,
                   pending, fullAnswer, frames, tier, model, context,
                   messages, matches, clientGone, reader, writtenAtDrop,
                   delivered, aiResult, clientVars>>

\* await req.json() rejects
BadBody ==
    /\ pc = "recv"
    /\ ReachesChat
    /\ ~req.body.json
    /\ Respond(Thrown(variant, "body"))
    /\ UNCHANGED <<retrievalOutcome, variant, req, embedCalls, retrievalCalls,
                   genCalls, vectors, genError, answer, units, src, consumed,
                   pending, fullAnswer, frames, tier, model, context,
                   messages, matches, clientGone, reader, writtenAtDrop,
                   delivered, aiResult, clientVars>>

EmptyQuery ==
    /\ pc = "recv"
    /\ ReachesChat
    /\ req.body.json
    /\ QueryIsEmpty
    /\ Respond(EmptyQueryResponse(variant))
    /\ UNCHANGED <<retrievalOutcome, variant, req, embedCalls, retrievalCalls,
                   genCalls, vectors, genError, answer, units, src, consumed,
                   pending, fullAnswer, frames, tier, model, context,
                   messages, matches, clientGone, reader, writtenAtDrop,
                   delivered, aiResult, clientVars>>

Forbidden ==
    /\ pc = "recv"
    /\ ReachesChat
    /\ req.body.json
    /\ ~QueryIsEmpty
    /\ detectPromptInjection(variant, QueryUsed)
    /\ Respond(ForbiddenResponse(variant))
    /\ UNCHANGED <<retrievalOutcome, variant, req, embedCalls, retrievalCalls,
                   genCalls, vectors, genError, answer, units, src, consumed,
                   pending, fullAnswer, frames, tier, model, context,
                   messages, matches, clientGone, reader, writtenAtDrop,
                   delivered, aiResult, clientVars>>

\* the guards passed: retrieveVectors starts its first awaited call
StartRetrieval ==
    /\ pc = "recv"
    /\ ReachesChat
    /\ req.body.json
    /\ ~QueryIsEmpty
    /\ ~detectPromptInjection(variant, QueryUsed)
    /\ IF variant \in RestVariants
       THEN /\ retrievalCalls' = retrievalCalls + 1
            /\ pc' = "awaitRetrieval"
            /\ UNCHANGED embedCalls
       ELSE /\ embedCalls' = embedCalls + 1
            /\ pc' = "awaitEmbed"
            /\ UNCHANGED retrievalCalls
    /\ tier' = TierOf(variant, QueryUsed)
    /\ model' = ModelOf(variant, QueryUsed)
    /\ UNCHANGED <<retrievalOutcome, variant, req, resp, genCalls, vectors,
                   genError, answer, units, src, consumed, pending,
                   fullAnswer, frames, context, messages, matches, clientGone,
                   reader, writtenAtDrop, delivered, aiResult, clientVars>>

(* ----------------------------- retrieval ------------------------------ *)

\* fetch rejects or res.json() rejects inside retrieveVectors
RetrievalThrows ==
    /\ pc = "awaitRetrieval"
    /\ \E o \in RestOutcomes :
          /\ o.kind \in {"network", "unparsable"}
          /\ retrievalOutcome' = o.kind
          /\ Respond(Thrown(variant, o.kind))
    /\ UNCHANGED <<variant, req, embedCalls, retrievalCalls, genCalls,
                   vectors, genError, answer, units, src, consumed, pending,
                   fullAnswer, frames, tier, model, context, messages,
                   matches, clientGone, reader, writtenAtDrop, delivered,
                   aiResult, clientVars>>

\* part_002: the context is too short and the request is answered at once
RetrievalInsufficientOf(O) ==
    /\ pc = "awaitRetrieval"
    /\ \E o \in O :
          /\ o.kind \in {"failure", "ok"}
          /\ InsufficientContext(variant, RestMatches(variant, o))
          /\ retrievalOutcome' = o.kind
          /\ matches' = o.matches
          /\ vectors' = RestMatches(variant, o)
          /\ context' = buildContext(variant, RestMatches(variant, o))
    /\ Respond(InsufficientResponse)
    /\ UNCHANGED <<variant, req, embedCalls, retrievalCalls, genCalls,
                   genError, answer, units, src, consumed, pending,
                   fullAnswer, frames, tier, model, messages, clientGone,
                   reader, writtenAtDrop, delivered, aiResult, clientVars>>

RetrievalInsufficient == RetrievalInsufficientOf(RestOutcomes)

\* retrieveVectors returns and the pipeline goes on to env.AI.run
RetrievalReturnsOf(O) ==
    /\ pc = "awaitRetrieval"
    /\ \E o \in O :
          /\ o.kind \in {"failure", "ok"}
          /\ ~InsufficientContext(variant, RestMatches(variant, o))
          /\ retrievalOutcome' = o.kind
          /\ matches' = o.matches
          /\ vectors' = RestMatches(variant, o)
          /\ context' = buildContext(variant, RestMatches(variant, o))
          /\ messages' = Assemble(variant, req.body,
                                  buildContext(variant, RestMatches(variant, o)),
                                  QueryUsed)
    /\ genCalls' = genCalls + 1
    /\ pc' = "awaitGen"
    /\ UNCHANGED <<variant, req, resp, embedCalls, retrievalCalls, genError,
                   answer, units, src, consumed, pending, fullAnswer, frames,
                   tier, model, clientGone, reader, writtenAtDrop, delivered,
                   aiResult, clientVars>>

RetrievalReturns == RetrievalReturnsOf(RestOutcomes)

\* env.AI.run of the embedding model rejects
EmbedThrows ==
    /\ pc = "awaitEmbed"
    /\ retrievalOutcome' = "embedding"
    /\ Respond(Thrown(variant, "embedding"))
    /\ UNCHANGED <<variant, req, embedCalls, retrievalCalls, genCalls,
                   vectors, genError, answer, units, src, consumed, pending,
                   fullAnswer, frames, tier, model, context, messages,
                   matches, clientGone, reader, writtenAtDrop, delivered,
                   aiResult, clientVars>>

EmbedReturns ==
    /\ pc = "awaitEmbed"
    /\ retrievalCalls' = retrievalCalls + 1
    /\ pc' = "awaitQuery"
    /\ UNCHANGED <<retrievalOutcome, variant, req, resp, embedCalls, genCalls,
                   vectors, genError, answer, units, src, consumed, pending,
                   fullAnswer, frames, tier, model, context, messages,
                   matches, clientGone, reader, writtenAtDrop, delivered,
                   aiResult, clientVars>>

\* env.VECTORIZE.query rejects
QueryThrows ==
    /\ pc = "awaitQuery"
    /\ retrievalOutcome' = "vectorize"
    /\ Respond(Thrown(variant, "vectorize"))
    /\ UNCHANGED <<variant, req, embedCalls, retrievalCalls, genCalls,
                   vectors, genError, answer, units, src, consumed, pending,
                   fullAnswer, frames, tier, model, context, messages,
                   matches, clientGone, reader, writtenAtDrop, delivered,
                   aiResult, clientVars>>

\* result.matches ?? []
QueryReturnsOf(O) ==
    /\ pc = "awaitQuery"
    /\ \E o \in O :
          /\ o.kind # "throws"
          /\ retrievalOutcome' = o.kind
          /\ matches' = o.matches
          /\ vectors' = o.matches
          /\ context' = buildContext(variant, o.matches)
          /\ messages' = Assemble(variant, req.body,
                                  buildContext(variant, o.matches), QueryUsed)
    /\ genCalls' = genCalls + 1
    /\ pc' = "awaitGen"
    /\ UNCHANGED <<variant, req, resp, embedCalls, retrievalCalls, genError,
                   answer, units, src, consumed, pending, fullAnswer, frames,
                   tier, model, clientGone, reader, writtenAtDrop, delivered,
                   aiResult, clientVars>>

QueryReturns == QueryReturnsOf(QueryOutcomes)

(* ----------------------------- generation ----------------------------- *)

\* env.AI.run of the chat model rejects
GenThrows ==
    /\ pc = "awaitGen"
    /\ \E e \in GenFailures :
          /\ genError' = e
          /\ Respond(Thrown(variant, e))
    /\ UNCHANGED <<retrievalOutcome, variant, req, embedCalls, retrievalCalls,
                   genCalls, vectors, answer, units, src, consumed, pending,
                   fullAnswer, frames, tier, model, context, messages,
                   matches, clientGone, reader, writtenAtDrop, delivered,
                   aiResult, clientVars>>

\* complete-text mode: the answer is cut into units and the stream starts
GenReturnsTextOf(R) ==
    /\ pc = "awaitGen"
    /\ variant # "index_raw"
    /\ \E r \in R :
          /\ aiResult' = r
          /\ answer' = AnswerOf(variant, r)
          /\ units' = UnitsOf(variant, AnswerOf(variant, r))
    /\ resp' = StreamResponse
    /\ pc' = "streaming"
    /\ UNCHANGED <<retrievalOutcome, variant, req, embedCalls, retrievalCalls,
                   genCalls, vectors, genError, src, consumed, pending,
                   fullAnswer, frames, tier, model, context, messages,
                   matches, clientGone, reader, writtenAtDrop, delivered,
                   clientVars>>

GenReturnsText == GenReturnsTextOf(GenResults(variant))

\* incremental mode: the raw backend response body is the source
GenReturnsStreamOf(S) ==
    /\ pc = "awaitGen"
    /\ variant = "index_raw"
    /\ src' \in S
    /\ reader' = "locked"
    /\ resp' = StreamResponse
    /\ pc' = "streaming"
    /\ UNCHANGED <<retrievalOutcome, variant, req, embedCalls, retrievalCalls,
                   genCalls, vectors, genError, answer, units, consumed,
                   pending, fullAnswer, frames, tier, model, context,
                   messages, matches, clientGone, writtenAtDrop, delivered,
                   aiResult, clientVars>>

GenReturnsStream == GenReturnsStreamOf(ByteStreams)

(* ------------------------------ reframer ------------------------------ *)

\* one turn of the for loop of the complete-text variants
EmitToken ==
    /\ pc = "streaming"
    /\ ~clientGone
    /\ variant # "index_raw"
    /\ units # <<>>
    /\ frames' = Append(frames, TokenFrame(Head(units)))
    /\ units' = Tail(units)
    /\ UNCHANGED <<retrievalOutcome, variant, req, pc, resp, embedCalls,
                   retrievalCalls, genCalls, vectors, genError, answer, src,
                   consumed, pending, fullAnswer, tier, model, context,
                   messages, matches, clientGone, reader, writtenAtDrop,
                   delivered, aiResult, clientVars>>

\* after the loop: done frame, sentinel, controller.close()
Finalize ==
    /\ pc = "streaming"
    /\ ~clientGone
    /\ variant # "index_raw"
    /\ units = <<>>
    /\ frames' = frames \o <<DoneFrame(variant, vectors, fullAnswer), Sentinel>>
    /\ pc' = "closed"
    /\ UNCHANGED <<retrievalOutcome, variant, req, resp, embedCalls,
                   retrievalCalls, genCalls, vectors, genError, answer, units,
                   src, consumed, pending, fullAnswer, tier, model, context,
                   messages, matches, clientGone, reader, writtenAtDrop,
                   delivered, aiResult, clientVars>>

\* reader.read() resolves with the next n bytes of the backend stream
ReadChunk ==
    /\ pc = "streaming"
    /\ ~clientGone
    /\ variant = "index_raw"
    /\ \E n \in 1..(Len(src) - consumed) :
          LET d == decodeChunk(pending, SubSeq(src, consumed + 1, consumed + n))
          IN  /\ pending' = d.pend
              /\ fullAnswer' = fullAnswer \o d.out
              /\ frames' = Append(frames, TokenFrame(d.out))
              /\ consumed' = consumed + n
    /\ UNCHANGED <<retrievalOutcome, variant, req, pc, resp, embedCalls,
                   retrievalCalls, genCalls, vectors, genError, answer, units,
                   src, tier, model, context, messages, matches, clientGone,
                   reader, writtenAtDrop, delivered, aiResult, clientVars>>

\* reader.read() resolves with done: done frame, sentinel, controller.close()
ReadDone ==
    /\ pc = "streaming"
    /\ ~clientGone
    /\ variant = "index_raw"
    /\ consumed = Len(src)
    /\ frames' = frames \o <<DoneFrame(variant, vectors, fullAnswer), Sentinel>>
    /\ reader' = "drained"
    /\ pc' = "closed"
    /\ UNCHANGED <<retrievalOutcome, variant, req, resp, embedCalls,
                   retrievalCalls, genCalls, vectors, genError, answer, units,
                   src, consumed, pending, fullAnswer, tier, model, context,
                   messages, matches, clientGone, writtenAtDrop, delivered,
                   aiResult, clientVars>>

\* reader.read() rejects: start() rejects and the stream is errored
ReadError ==
    /\ pc = "streaming"
    /\ ~clientGone
    /\ variant = "index_raw"
    /\ pc' = "errored"
    /\ UNCHANGED <<retrievalOutcome, variant, req, resp, embedCalls,
                   retrievalCalls, genCalls, vectors, genError, answer, units,
                   src, consumed, pending, fullAnswer, frames, tier, model,
                   context, messages, matches, clientGone, reader,
                   writtenAtDrop, delivered, aiResult, clientVars>>

Next ==
    \/ OptionsPreflight
    \/ NotFound
    \/ BadBody
    \/ EmptyQuery
    \/ Forbidden
    \/ StartRetrieval
    \/ RetrievalThrows
    \/ RetrievalInsufficient
    \/ RetrievalReturns
    \/ EmbedThrows
    \/ EmbedReturns
    \/ QueryThrows
    \/ QueryReturns
    \/ GenThrows
    \/ GenReturnsText
    \/ GenReturnsStream
    \/ EmitToken
    \/ Finalize
    \/ ReadChunk
    \/ ReadDone
    \/ ReadError

Spec == Init /\ [][Next]_vars

(* ------------------------ histories and scores ------------------------ *)

\* the longest history sent, one more than the cap so that slicing happens
MaxHistory == 7

\* the longest reply of the index in this specification
MaxWideMatches == 2

\* ChatMessage: the i-th turn of a conversation, roles alternating
Turn(i) ==
    [role |-> IF i % 2 = 1 THEN "user" ELSE "assistant",
     content |-> Rep("h", i)]

Conversation(n) == [i \in 1..n |-> Turn(i)]

\* a history whose entries claim the system role
SystemTurn == [role |-> "system", content |-> <<"x">>]
Planted == <<Turn(1), SystemTurn, Turn(3)>>

Histories ==
    {NoHistory, [kind |-> "notArray", items |-> <<>>]}
    \cup {[kind |-> "array", items |-> Conversation(n)] : n \in 0..MaxHistory}
    \cup {[kind |-> "array", items |-> Planted]}

qAudit == <<"a","n"," ","A","u","d","i","T">>
qCit == <<"C","i","T">>
qScrutiny == <<"s","C","r","u","T","i","n","Y">>
qNotes == <<"n","o","t","i","c"," ","i","t","a"," ","a","p","p","e","a">>

WideQueries == {qGst, qAudit, qCit, qScrutiny, qNotes}

WideRequests ==
    {[method |-> "POST", path |-> ChatPath, body |-> HistoryBody(q, h)] :
        q \in WideQueries, h \in {NoHistory}}
    \cup {[method |-> "POST", path |-> ChatPath, body |-> HistoryBody(qGst, h)] :
             h \in Histories}

\* chunks at the floor, without a score, with metadata.text only, with the
\* text of another chunk, and with no text at all
cFloor == Chunk(TRUE, ScoreFloor, "s4", Rep("f", 200), <<>>)
cNoScore == Chunk(FALSE, 0, "s5", Rep("n", 200), <<>>)
cText == Chunk(TRUE, 90, "s6", <<>>, Rep("t", 200))
cTwin == Chunk(TRUE, 85, "s7", LongSnippet, <<>>)
cBare == Chunk(TRUE, 95, "s8", <<>>, <<>>)

WideChunks == {cLong, cLow, cFloor, cNoScore, cText, cTwin, cBare}

WideMatchLists == SeqsUpTo(WideChunks, MaxWideMatches)

WideRestOutcomes ==
    {[kind |-> "failure", matches |-> <<>>]}
    \cup {[kind |-> "ok", matches |-> m] : m \in WideMatchLists}

WideQueryOutcomes ==
    {[kind |-> "nomatches", matches |-> <<>>]}
    \cup {[kind |-> "ok", matches |-> m] : m \in WideMatchLists}

WideGenResults == {[field |-> "response", text |-> <<"a", "b">>]}

WideByteStreams == {<<"a">>}

InitWide ==
    /\ variant \in Variants
    /\ req \in WideRequests
    /\ pc = "recv"
    /\ resp = NoResponse
    /\ embedCalls = 0
    /\ retrievalCalls = 0
    /\ genCalls = 0
    /\ retrievalOutcome = "none"
    /\ vectors = <<>>
    /\ genError = "none"
    /\ answer = <<>>
    /\ units = <<>>
    /\ src = <<>>
    /\ consumed = 0
    /\ pending = <<>>
    /\ fullAnswer = <<>>
    /\ frames = <<>>
    /\ tier = "none"
    /\ model = "none"
    /\ matches = <<>>
    /\ context = <<>>
    /\ messages = <<>>
    /\ clientGone = FALSE
    /\ writtenAtDrop = 0
    /\ reader = "none"
    /\ aiResult = [field |-> "pending", text |-> <<>>]
    /\ cvariant = "chat_a"
    /\ PageLoaded
    /\ delivered = 0

WideRetrievalInsufficient == RetrievalInsufficientOf(WideRestOutcomes)
WideRetrievalReturns == RetrievalReturnsOf(WideRestOutcomes)
WideQueryReturns == QueryReturnsOf(WideQueryOutcomes)
WideGenReturnsText == GenReturnsTextOf(WideGenResults)
WideGenReturnsStream == GenReturnsStreamOf(WideByteStreams)

NextWide ==
    \/ StartRetrieval
    \/ RetrievalThrows
    \/ WideRetrievalInsufficient
    \/ WideRetrievalReturns
    \/ EmbedThrows
    \/ EmbedReturns
    \/ QueryThrows
    \/ WideQueryReturns
    \/ GenThrows
    \/ WideGenReturnsText
    \/ WideGenReturnsStream
    \/ EmitToken
    \/ Finalize
    \/ ReadChunk
    \/ ReadDone
    \/ ReadError

SpecWide == InitWide /\ [][NextWide]_vars

(* ---------------------- markers and disconnects ------------------------ *)

DropRequest ==
    [method |-> "POST", path |-> ChatPath, body |-> QueryBody(qGst)]

DropOutcomes ==
    {[kind |-> "ok", matches |-> m] : m \in {<<cLong>>, <<cLong, cShort>>}}

DropGenResults ==
    {[field |-> "none", text |-> <<>>],
     [field |-> "response", text |-> <<"a", "b">>]}

\* the text with which the backend ends its event stream
Marker == <<"[","D","O","N","E","]">>

\* one event of the backend's own stream, abridged: prefix, envelope around
\* the delta, blank-line delimiter
BackendEvent(delta) == <<"d", ":", "{">> \o delta \o <<"}", "\n", "\n">>

DropByteStreams ==
    {<<>>, <<"a">>, Marker, <<"a">> \o Marker, BackendEvent(<<"x">>)}

InitDrop ==
    /\ variant \in Variants
    /\ req = DropRequest
    /\ pc = "recv"
    /\ resp = NoResponse
    /\ embedCalls = 0
    /\ retrievalCalls = 0
    /\ genCalls = 0
    /\ retrievalOutcome = "none"
    /\ vectors = <<>>
    /\ genError = "none"
    /\ answer = <<>>
    /\ units = <<>>
    /\ src = <<>>
    /\ consumed = 0
    /\ pending = <<>>
    /\ fullAnswer = <<>>
    /\ frames = <<>>
    /\ tier = "none"
    /\ model = "none"
    /\ matches = <<>>
    /\ context = <<>>
    /\ messages = <<>>
    /\ clientGone = FALSE
    /\ writtenAtDrop = 0
    /\ reader = "none"
    /\ aiResult = [field |-> "pending", text |-> <<>>]
    /\ cvariant = "chat_a"
    /\ PageLoaded
    /\ delivered = 0

DropRetrievalReturns == RetrievalReturnsOf(DropOutcomes)
DropQueryReturns == QueryReturnsOf(DropOutcomes)
DropGenReturnsText == GenReturnsTextOf(DropGenResults)
DropGenReturnsStream == GenReturnsStreamOf(DropByteStreams)

\* the client goes away while start() waits for a read or for its timer,
\* having been sent writtenAtDrop frames; no variant passes a cancel() to its
\* ReadableStream
ClientDisconnect ==
    /\ pc = "streaming"
    /\ ~clientGone
    /\ clientGone' = TRUE
    /\ writtenAtDrop' = Len(frames)
    /\ UNCHANGED <<retrievalOutcome, variant, req, pc, resp, embedCalls,
                   retrievalCalls, genCalls, vectors, genError, answer, units,
                   src, consumed, pending, fullAnswer, frames, tier, model,
                   context, messages, matches, reader, delivered, aiResult,
                   clientVars>>

\* the client takes the next frame from the response stream; start() never
\* waits for this: no variant has a pull() or looks at desiredSize
ClientPull ==
    /\ pc \in {"streaming", "closed"}
    /\ ~clientGone
    /\ delivered < Len(frames)
    /\ delivered' = delivered + 1
    /\ UNCHANGED <<retrievalOutcome, variant, req, pc, resp, embedCalls,
                   retrievalCalls, genCalls, vectors, genError, answer, units,
                   src, consumed, pending, fullAnswer, frames, tier, model,
                   context, messages, matches, clientGone, writtenAtDrop,
                   reader, aiResult, clientVars>>

\* complete-text variants: the timer fires and controller.enqueue throws on
\* the cancelled stream, so start() rejects
AbortedEmit ==
    /\ pc = "streaming"
    /\ clientGone
    /\ variant # "index_raw"
    /\ pc' = "errored"
    /\ UNCHANGED <<retrievalOutcome, variant, req, resp, embedCalls,
                   retrievalCalls, genCalls, vectors, genError, answer, units,
                   src, consumed, pending, fullAnswer, frames, tier, model,
                   context, messages, matches, clientGone, reader,
                   writtenAtDrop, delivered, aiResult, clientVars>>

\* index_raw: the read that was waiting resolves, the chunk is decoded and
\* added to fullAnswer, then controller.enqueue throws and start() rejects
\* with the reader still locked
AbortedRead ==
    /\ pc = "streaming"
    /\ clientGone
    /\ variant = "index_raw"
    /\ \/ /\ consumed = Len(src)
          /\ UNCHANGED <<pending, fullAnswer, consumed, writtenAtDrop, delivered,
                   aiResult, clientVars>>
       \/ \E n \in 1..(Len(src) - consumed) :
             LET d == decodeChunk(pending,
                                  SubSeq(src, consumed + 1, consumed + n))
             IN  /\ pending' = d.pend
                 /\ fullAnswer' = fullAnswer \o d.out
                 /\ consumed' = consumed + n
    /\ pc' = "errored"
    /\ UNCHANGED <<retrievalOutcome, variant, req, resp, embedCalls,
                   retrievalCalls, genCalls, vectors, genError, answer, units,
                   src, frames, tier, model, context, messages, matches,
                   clientGone, reader, writtenAtDrop, delivered, aiResult,
                   clientVars>>

NextDrop ==
    \/ StartRetrieval
    \/ DropRetrievalReturns
    \/ EmbedReturns
    \/ DropQueryReturns
    \/ GenThrows
    \/ DropGenReturnsText
    \/ DropGenReturnsStream
    \/ EmitToken
    \/ Finalize
    \/ ReadChunk
    \/ ReadDone
    \/ ReadError
    \/ ClientDisconnect
    \/ ClientPull
    \/ AbortedEmit
    \/ AbortedRead

SpecDrop == InitDrop /\ [][NextDrop]_vars

(* ---------------------------- wire format ------------------------------ *)

\* encoder.encode: "E" is the character of two bytes, a lead and a
\* continuation
RECURSIVE Encode(_)
Encode(s) ==
    IF s = <<>> THEN <<>>
    ELSE (IF Head(s) = "E" THEN <<"L", "C">> ELSE <<Head(s)>>)
         \o Encode(Tail(s))

\* JSON.stringify of a string, abridged to its content: a line feed is
\* written as a backslash and the letter n
RECURSIVE Escape(_)
Escape(s) ==
    IF s = <<>> THEN <<>>
    ELSE (IF Head(s) = "\n" THEN <<"\\", "n">> ELSE <<Head(s)>>)
         \o Escape(Tail(s))

\* one element of sources: {source, snippet}, each abridged to a character
Entry(so, sn) == [source |-> so, snippet |-> sn]

RECURSIVE EntriesJson(_)
EntriesJson(es) ==
    IF es = <<>> THEN <<>>
    ELSE <<"(", Head(es).source, "|", Head(es).snippet, ")">>
         \o EntriesJson(Tail(es))

\* JSON.stringify of the object of a frame, abridged: t is token, d is
\* done: true, a is answer, s is sources
Json(f) ==
    IF f.type = "token" THEN <<"{", "t", ":">> \o Escape(f.token) \o <<"}">>
    ELSE <<"{", "d", ",">>
         \o (IF "answer" \in DOMAIN f
             THEN <<"a", ":">> \o Escape(f.answer) \o <<",">> ELSE <<>>)
         \o <<"s", ":">> \o EntriesJson(f.sources) \o <<"}">>

DataPrefix == <<"d", "a", "t", "a", ":">>
Delimiter == <<"\n", "\n">>
SentinelPayload == <<"[", "D", "O", "N", "E", "]">>

\* `data: ${JSON.stringify(...)}\n\n` and "data: [DONE]\n\n"
FrameText(f) ==
    DataPrefix \o <<" ">>
    \o (IF f.type = "sentinel" THEN SentinelPayload ELSE Json(f))
    \o Delimiter

\* the bytes of the response body for a sequence of frames
RECURSIVE Serialize(_)
Serialize(fs) ==
    IF fs = <<>> THEN <<>>
    ELSE Encode(FrameText(Head(fs))) \o Serialize(Tail(fs))

(* ------------------------------ client -------------------------------- *)

ClientVariants == {"chat_a", "chat_b"}

\* the place of the first line feed, whatever follows it
IndexOfLineFeed(s) ==
    IF \E i \in 1..Len(s) : s[i] = "\n"
    THEN CHOOSE i \in 1..Len(s) :
            s[i] = "\n" /\ \A j \in 1..(i - 1) : s[j] # "\n"
    ELSE 0

\* buffer.indexOf("\n\n"), counted from 1; 0 when there is none
IndexOfDelimiter(s) ==
    IF \E i \in 1..(Len(s) - 1) : s[i] = "\n" /\ s[i + 1] = "\n"
    THEN CHOOSE i \in 1..(Len(s) - 1) :
            /\ s[i] = "\n" /\ s[i + 1] = "\n"
            /\ \A j \in 1..(i - 1) : ~(s[j] = "\n" /\ s[j + 1] = "\n")
    ELSE 0

\* raw.startsWith("data:")
StartsWithData(raw) ==
    Len(raw) >= Len(DataPrefix) /\ SubSeq(raw, 1, Len(DataPrefix)) = DataPrefix

\* raw.replace("data:", "").trim() of a raw that starts with the prefix
PayloadOf(raw) == Trim(SubSeq(raw, Len(DataPrefix) + 1, Len(raw)))

\* the pieces of s between the occurrences of the character c
RECURSIVE SplitOn(_, _, _)
SplitOn(s, c, cur) ==
    IF s = <<>> THEN <<cur>>
    ELSE IF Head(s) = c THEN <<cur>> \o SplitOn(Tail(s), c, <<>>)
    ELSE SplitOn(Tail(s), c, Append(cur, Head(s)))

RECURSIVE Unescape(_)
Unescape(s) ==
    IF s = <<>> THEN <<>>
    ELSE IF Len(s) >= 2 /\ s[1] = "\\" /\ s[2] = "n"
         THEN <<"\n">> \o Unescape(SubSeq(s, 3, Len(s)))
         ELSE <<Head(s)>> \o Unescape(Tail(s))

EntriesOk(v) ==
    /\ Len(v) % 5 = 0
    /\ \A k \in 0..((Len(v) \div 5) - 1) :
          v[5 * k + 1] = "(" /\ v[5 * k + 3] = "|" /\ v[5 * k + 5] = ")"

EntriesOf(v) ==
    [k \in 1..(Len(v) \div 5) |-> Entry(v[5 * k - 3], v[5 * k - 1])]

FieldOk(fl) ==
    \/ fl = <<"d">>
    \/ /\ Len(fl) >= 2
       /\ fl[2] = ":"
       /\ fl[1] \in {"t", "a", "s"}
       /\ fl[1] = "s" => EntriesOk(SubSeq(fl, 3, Len(fl)))

NullText == <<"n", "u", "l", "l">>

\* JSON.parse of the abridged text: ok is FALSE when it throws, isNull when
\* the text is null, token and sources are present only when the object has
\* them. A line feed inside the text is not valid JSON.
JsonParse(p) ==
    LET isObject == Len(p) >= 2 /\ p[1] = "{" /\ p[Len(p)] = "}"
        fields == IF isObject /\ Len(p) > 2
                  THEN SplitOn(SubSeq(p, 2, Len(p) - 1), ",", <<>>)
                  ELSE <<>>
        ok == \/ p = NullText
              \/ /\ isObject
                 /\ \A i \in 1..Len(p) : p[i] # "\n"
                 /\ \A i \in 1..Len(fields) : FieldOk(fields[i])
        valueOf(k) ==
            LET i == CHOOSE i \in 1..Len(fields) : fields[i][1] = k
            IN  SubSeq(fields[i], 3, Len(fields[i]))
        has(k) == ok /\ isObject /\ \E i \in 1..Len(fields) : fields[i][1] = k
    IN  [ok |-> ok,
         isNull |-> p = NullText,
         hasToken |-> has("t"),
         token |-> IF has("t") THEN Unescape(valueOf("t")) ELSE <<>>,
         hasSources |-> has("s"),
         sources |-> IF has("s") THEN EntriesOf(valueOf("s")) ELSE <<>>]

\* what the read loop holds: the buffer, finalText, sources, whether an
\* exception left the loop, and done, the text and sources at the moment
\* the sentinel was first read
LoopState(buf, text, srcs, done) ==
    [buf |-> buf, text |-> text, srcs |-> srcs, done |-> done,
     thrown |-> FALSE]

SourcesApplied(st, parsed) ==
    IF parsed.hasSources THEN [st EXCEPT !.srcs = parsed.sources] ELSE st

\* the inner loop, while ((idx = buffer.indexOf("\n\n")) !== -1): the
\* sentinel leaves this loop and nothing else; a text that does not parse is
\* logged and the loop goes on to the next event. Reading .token of null
\* throws, and so does marked.parse or Prism.highlightAll when rf is TRUE:
\* outside the try in the first client, inside it in the second, where the
\* rest of the try block is skipped and the loop goes on.
RECURSIVE Drain(_, _, _)
Drain(st, cv, rf) ==
    LET idx == IndexOfDelimiter(st.buf)
        raw == SubSeq(st.buf, 1, idx - 1)
        nx == [st EXCEPT !.buf = SubSeq(st.buf, idx + 2, Len(st.buf))]
        payload == PayloadOf(raw)
        parsed == JsonParse(payload)
        withToken == [nx EXCEPT !.text = st.text \o parsed.token]
    IN  IF idx = 0 THEN st
        ELSE IF ~StartsWithData(raw) THEN Drain(nx, cv, rf)
        ELSE IF payload = SentinelPayload
        THEN [nx EXCEPT !.done =
                 IF st.done.seen THEN st.done
                 ELSE [seen |-> TRUE, text |-> st.text, sources |-> st.srcs]]
        ELSE IF ~parsed.ok THEN Drain(nx, cv, rf)
        ELSE IF parsed.isNull
        THEN (IF cv = "chat_a" THEN [nx EXCEPT !.thrown = TRUE]
              ELSE Drain(nx, cv, rf))
        ELSE IF parsed.token # <<>>
        THEN (IF rf
              THEN (IF cv = "chat_a" THEN [withToken EXCEPT !.thrown = TRUE]
                    ELSE Drain(withToken, cv, rf))
              ELSE Drain(SourcesApplied(withToken, parsed), cv, rf))
        ELSE Drain(SourcesApplied(nx, parsed), cv, rf)

\* what sendMessage finds in userInput.value
ClientInputs == {<<>>, <<" ">>, <<"q">>}

\* if (!query || isProcessing) return, without the test of isProcessing
SendBlockedOnEmptyOnly == Trim(inputValue) = <<>>

\* if (!query || isProcessing) return, with query = userInput.value.trim()
SendBlocked == Trim(inputValue) = <<>> \/ isProcessing

\* a finally block that hides the typing indicator and nothing else
FinallyKeepsBusy ==
    /\ UNCHANGED <<isProcessing, disabled>>
    /\ inFlight' = inFlight - 1
    /\ cpc' = "idle"

\* finally: isProcessing = false, input and button enabled; the request is
\* over
Finally ==
    /\ isProcessing' = FALSE
    /\ disabled' = FALSE
    /\ inFlight' = inFlight - 1
    /\ cpc' = "idle"

\* s.text_snippet?.substring(0, 150): the field of that name when the entry
\* has it (its text is abridged to one character, so the cut at 150 leaves
\* it whole), undefined otherwise, which the template writes as "undefined"
SnippetRead(s) ==
    IF "text_snippet" \in DOMAIN s THEN s.text_snippet ELSE "undefined"

\* sources.map((s, i) => `<div>... ${s.source} ...: ${s.text_snippet...}`):
\* per entry, the name and the snippet text that the page shows
RenderedSources(ss) ==
    [i \in 1..Len(ss) |->
        [source |-> ss[i].source, snippet |-> SnippetRead(ss[i])]]

\* catch (err): the error text replaces the answer, then finally
CatchThenFinally ==
    /\ shown' = "error"
    /\ UNCHANGED shownSources
    /\ Finally

(* --------------------------- response bodies --------------------------- *)

SourcesDone == [type |-> "done", sources |-> <<Entry("1", "x")>>]

\* the done frame of the raw variant carries the answer as well
AnswerDone(a) == [type |-> "done", sources |-> <<>>, answer |-> a]

\* the frame sequences the worker sends: token frames, one done frame, the
\* sentinel. The token values: none; one and an empty one; one with a
\* character of two bytes and a line feed.
ClientFrameSeqs ==
    {<<SourcesDone, Sentinel>>,
     <<TokenFrame(<<"a">>), TokenFrame(<<>>), AnswerDone(<<"a">>), Sentinel>>,
     <<TokenFrame(<<"E", "\n">>), TokenFrame(<<"a">>), SourcesDone, Sentinel>>}

ConformingWires == {Serialize(fs) : fs \in ClientFrameSeqs}

TailFrames == <<SourcesDone, Sentinel>>

\* an event cut in two by a blank line: neither half parses
CutWire ==
    Encode(DataPrefix \o <<" ", "{", "t", ":">> \o Delimiter
           \o <<"a", "}">> \o Delimiter)
    \o Serialize(TailFrames)

\* frames that follow the sentinel
LateWire ==
    Serialize(<<TokenFrame(<<"a">>)>> \o TailFrames
              \o <<TokenFrame(<<"b">>),
                   [type |-> "done", sources |-> <<Entry("2", "y")>>]>>)

\* a comment line and an event whose text is null
NullWire ==
    Encode(<<":", "k">> \o Delimiter \o DataPrefix \o <<" ">> \o NullText
           \o Delimiter)
    \o Serialize(<<TokenFrame(<<"a">>)>> \o TailFrames)

ClientWires == ConformingWires \cup {CutWire, LateWire, NullWire}

\* the bodies of the runs that are about the input and the button: a JSON
\* body that is not an event stream, one event whose text is null, and a
\* stream that ends after its first token frame
PlainWires ==
    {<<"{", "a", ":", "x", "}">>,
     Encode(DataPrefix \o <<" ">> \o NullText \o Delimiter),
     Serialize(<<TokenFrame(<<"a">>)>>)}

\* statuses the worker answers with that make res.ok false
NotOkStatuses == {400, 403, 404, 500}

(* --------------------------- client actions ---------------------------- *)

serverVars ==
    <<variant, req, pc, resp, embedCalls, retrievalCalls, genCalls,
      retrievalOutcome, vectors, genError, answer, units, src, consumed,
      pending, fullAnswer, frames, tier, model, matches, context, messages,
      clientGone, writtenAtDrop, reader, delivered, aiResult>>

\* most calls of sendMessage in one run
MaxTriggers == 2

responseVars == <<wire, rpos, cpending, buffer, finalText, csources, atDone>>

\* sendMessage returns: its locals and the response are gone
LocalsDiscarded ==
    /\ wire' = <<>>
    /\ rpos' = 0
    /\ cpending' = <<>>
    /\ buffer' = <<>>
    /\ finalText' = <<>>
    /\ csources' = <<>>
    /\ atDone' = [seen |-> FALSE, text |-> <<>>, sources |-> <<>>]

\* the value of the input changes; the script reads it and never guards it
TypeOf(Q) ==
    /\ \E q \in Q : inputValue # q /\ inputValue' = q
    /\ UNCHANGED <<serverVars, cvariant, cpc, isProcessing, disabled, triggers,
                   sent, inFlight, responseVars, shown, shownSources,
                   lastCall>>

\* sendMessage returns at its guard
SendIgnored ==
    /\ triggers < MaxTriggers
    /\ SendBlocked
    /\ triggers' = triggers + 1
    /\ lastCall' = [outcome |-> "returned", busy |-> isProcessing,
                    query |-> inputValue]
    /\ UNCHANGED <<serverVars, cvariant, cpc, isProcessing, disabled,
                   inputValue, sent, inFlight, responseVars, shown,
                   shownSources>>

\* sendMessage passes its guard and runs up to the await of fetch
SendAccepted ==
    /\ triggers < MaxTriggers
    /\ ~SendBlocked
    /\ triggers' = triggers + 1
    /\ lastCall' = [outcome |-> "sent", busy |-> isProcessing,
                    query |-> inputValue]
    /\ isProcessing' = TRUE
    /\ disabled' = TRUE
    /\ inputValue' = <<>>
    /\ sent' = sent + 1
    /\ inFlight' = inFlight + 1
    /\ shown' = "placeholder"
    /\ shownSources' = <<>>
    /\ cpc' = "fetching"
    /\ UNCHANGED <<serverVars, cvariant, responseVars>>

\* fetch rejects
FetchRejects ==
    /\ cpc = "fetching"
    /\ CatchThenFinally
    /\ UNCHANGED <<serverVars, cvariant, inputValue, triggers, sent,
                   responseVars, lastCall>>

\* fetch resolves with a response that is not ok: throw
FetchReturnsNotOk ==
    /\ cpc = "fetching"
    /\ \E st \in NotOkStatuses : ~(200 <= st /\ st <= 299)
    /\ CatchThenFinally
    /\ UNCHANGED <<serverVars, cvariant, inputValue, triggers, sent,
                   responseVars, lastCall>>

\* fetch resolves with an ok response: reader, decoder, buffer = "",
\* finalText = "", sources = []
FetchReturnsStreamOf(W) ==
    /\ cpc = "fetching"
    /\ wire' \in W
    /\ rpos' = 0
    /\ cpending' = <<>>
    /\ buffer' = <<>>
    /\ finalText' = <<>>
    /\ csources' = <<>>
    /\ atDone' = [seen |-> FALSE, text |-> <<>>, sources |-> <<>>]
    /\ cpc' = "reading"
    /\ UNCHANGED <<serverVars, cvariant, isProcessing, disabled, inputValue,
                   triggers, sent, inFlight, shown, shownSources, lastCall>>

\* reader.read() resolves with a chunk of any size: decode, append, run the
\* inner loop; R tells whether rendering may throw
ClientReadOf(R) ==
    /\ cpc = "reading"
    /\ rpos < Len(wire)
    /\ \E n \in 1..(Len(wire) - rpos), rf \in R :
         LET d == decodeChunk(cpending, SubSeq(wire, rpos + 1, rpos + n))
             st == Drain(LoopState(buffer \o d.out, finalText, csources,
                                   atDone), cvariant, rf)
         IN  IF st.thrown
             THEN CatchThenFinally /\ LocalsDiscarded
             ELSE /\ rpos' = rpos + n
                  /\ cpending' = d.pend
                  /\ buffer' = st.buf
                  /\ finalText' = st.text
                  /\ csources' = st.srcs
                  /\ atDone' = st.done
                  /\ UNCHANGED <<cpc, isProcessing, disabled, inFlight, shown,
                                 shownSources, wire>>
    /\ UNCHANGED <<serverVars, cvariant, inputValue, triggers, sent, lastCall>>

\* reader.read() rejects
ClientReadRejects ==
    /\ cpc = "reading"
    /\ CatchThenFinally
    /\ LocalsDiscarded
    /\ UNCHANGED <<serverVars, cvariant, inputValue, triggers, sent, lastCall>>

\* reader.read() resolves with done: the disclaimer and the sources are
\* rendered after finalText, then finally
ClientReadEnds ==
    /\ cpc = "reading"
    /\ rpos = Len(wire)
    /\ shown' = "answer"
    /\ shownSources' = RenderedSources(csources)
    /\ Finally
    /\ LocalsDiscarded
    /\ UNCHANGED <<serverVars, cvariant, inputValue, triggers, sent, lastCall>>

Type == TypeOf(ClientInputs)

FetchReturnsStream == FetchReturnsStreamOf(PlainWires)

ClientRead == ClientReadOf(BOOLEAN)

FetchSettles == FetchRejects \/ FetchReturnsNotOk \/ FetchReturnsStream

ReadSettles == ClientReadRejects \/ ClientReadEnds \/ ClientRead

InitClient ==
    /\ variant = "index_hist"
    /\ req = DropRequest
    /\ pc = "recv"
    /\ resp = NoResponse
    /\ embedCalls = 0
    /\ retrievalCalls = 0
    /\ genCalls = 0
    /\ retrievalOutcome = "none"
    /\ vectors = <<>>
    /\ genError = "none"
    /\ answer = <<>>
    /\ units = <<>>
    /\ src = <<>>
    /\ consumed = 0
    /\ pending = <<>>
    /\ fullAnswer = <<>>
    /\ frames = <<>>
    /\ tier = "none"
    /\ model = "none"
    /\ matches = <<>>
    /\ context = <<>>
    /\ messages = <<>>
    /\ clientGone = FALSE
    /\ writtenAtDrop = 0
    /\ reader = "none"
    /\ delivered = 0
    /\ aiResult = [field |-> "pending", text |-> <<>>]
    /\ cvariant \in ClientVariants
    /\ PageLoaded

NextClient ==
    \/ Type
    \/ SendIgnored
    \/ SendAccepted
    \/ FetchRejects
    \/ FetchReturnsNotOk
    \/ FetchReturnsStream
    \/ ClientRead
    \/ ClientReadRejects
    \/ ClientReadEnds

SpecClient == InitClient /\ [][NextClient]_vars

\* the runs that are about the read loop: every request is answered with a
\* stream, drawn from the conforming bodies and the three others
ParseType == TypeOf({<<"q">>})

ParseFetchReturnsStream == FetchReturnsStreamOf(ClientWires)

ParseRead == ClientReadOf({FALSE})

NextParse ==
    \/ ParseType
    \/ SendAccepted
    \/ ParseFetchReturnsStream
    \/ ParseRead
    \/ ClientReadEnds

SpecParse == InitClient /\ [][NextParse]_vars

\* fetch and every read settle
SpecClientFair ==
    /\ InitClient
    /\ [][NextClient]_vars
    /\ WF_vars(FetchSettles)
    /\ WF_vars(ReadSettles)

(* ------------------------------ claims -------------------------------- *)

FramesOfType(t) == SelectSeq(frames, LAMBDA f : f.type = t)

\* the token values of the token frames, in emission order, concatenated
TokenText ==
    LET ts == FramesOfType("token")
    IN  Concat([i \in 1..Len(ts) |-> ts[i].token])

NoBackendCall == embedCalls = 0 /\ retrievalCalls = 0 /\ genCalls = 0

Streamed == resp.kind = "sse"

Terminated == pc \in {"closed", "errored"}

\* token frames only
OnlyTokens(fs) == \A i \in 1..Len(fs) : fs[i].type = "token"

\* zero or more token frames, one done frame, one sentinel, nothing after
CompleteStream(fs) ==
    /\ Len(fs) >= 2
    /\ fs[Len(fs)].type = "sentinel"
    /\ fs[Len(fs) - 1].type = "done"
    /\ OnlyTokens(SubSeq(fs, 1, Len(fs) - 2))

\* C1: every streaming response carries zero or more token frames, then
\* exactly one done frame, then exactly one sentinel, and nothing after it:
\* only token frames while the stream is open, the complete sequence once
\* the stream has ended.
C1_FrameSequence ==
    Streamed =>
        IF Terminated THEN CompleteStream(frames) ELSE OnlyTokens(frames)

\* C2: when a read of the backend stream fails, the response still ends
\* with exactly one done frame followed by exactly one sentinel.
C2_ErrorStillFinalizes ==
    pc = "errored" =>
        /\ Len(FramesOfType("done")) = 1
        /\ Len(FramesOfType("sentinel")) = 1
        /\ frames[Len(frames)].type = "sentinel"

\* C3: in the raw variant the concatenated token text is the text of the
\* bytes read so far decoded as one unsplit chunk, however the transport
\* split them (also inside a multi-byte character).
C3_SplitIndependent ==
    variant = "index_raw" =>
        TokenText = decodeChunk(<<>>, SubSeq(src, 1, consumed)).out

\* a two-byte character was split between two reads and the stream closed
C3_Witness ==
    /\ variant = "index_raw"
    /\ pc = "closed"
    /\ src = <<"L", "C">>
    /\ Len(FramesOfType("token")) = 2
    /\ frames[1].token = <<>>
    /\ TokenText = <<"E">>

\* C4: in complete-text mode the token values, concatenated in order, are
\* exactly the answer text, newlines included.
C4_TokensSpellAnswer ==
    (variant # "index_raw" /\ pc = "closed") => TokenText = answer

\* the query contains an injection phrase, compared without regard to case
IsInjection(v, q) ==
    \E p \in {pIgnoreSystem, pBypass, pActAs}
               \cup (IF v = "part_002" THEN {pOverride} ELSE {}) :
        \E i \in 1..Len(q) :
            /\ i + Len(p) - 1 <= Len(q)
            /\ \A k \in 1..Len(p) : LowerChar(q[i + k - 1]) = p[k]

ChatRequestWithQuery == ReachesChat /\ req.body.json /\ req.body.hasQuery

\* C5: a query matching an injection pattern is answered 403, no
\* embedding, retrieval or generation call is ever made and no frame is
\* emitted.
C5_InjectionRejected ==
    (ChatRequestWithQuery /\ IsInjection(variant, req.body.query)) =>
        /\ NoBackendCall
        /\ frames = <<>>
        /\ pc \in {"recv", "responded"}
        /\ pc = "responded" => resp.status = 403

\* a mixed-case injection query was answered
C5_Witness ==
    /\ req.body.query = qActAs
    /\ ReachesChat
    /\ pc = "responded"
    /\ resp.status = 403

\* every character of the query is white space
IsBlank(q) == \A i \in 1..Len(q) : q[i] \in Whitespace

C7_ReachesGeneration ==
    (ChatRequestWithQuery /\ ~IsBlank(req.body.query)
        /\ ~IsInjection(variant, req.body.query)
        /\ resp # NoResponse) => genCalls >= 1

RetrievalFailures ==
    {"network", "unparsable", "failure", "embedding", "vectorize"}

\* C8: when the retrieval collaborator fails, retrieval yields no chunk,
\* generation is still invoked, and the client sees no error that generation
\* itself did not cause.
C8_RetrievalFailureAbsorbed ==
    retrievalOutcome \in RetrievalFailures =>
        /\ vectors = <<>>
        /\ genCalls = 1
        /\ resp.status = 500 => genError # "none"

\* the fixed body of the error response of each variant
GenericErrorBody ==
    IF variant = "index_raw" THEN "Worker threw exception"
    ELSE "Internal Error"

C10_Routing ==
    pc # "recv" =>
        /\ req.method = "OPTIONS" => resp = Preflight
        /\ (req.method = "POST" /\ req.path = ChatPath) => resp.status # 404
        /\ (req.method \notin {"OPTIONS", "POST"}
              \/ (req.method # "OPTIONS" /\ req.path # ChatPath)) =>
                 (resp.status = 404 /\ NoBackendCall)

(* ------------------------ claims on the assembler ---------------------- *)

\* the request reached the point where the messages are assembled
Assembled == messages # <<>>

\* the positions of the assembled messages that carry role r
WithRole(r) == {i \in 1..Len(messages) : messages[i].role = r}

\* C11: the assembled messages hold exactly one system message, in first
\* place, and exactly one message holding the current query, with role user,
\* in last place, whatever the history holds.
C11_OneSystemOneQuery ==
    Assembled =>
        /\ WithRole("system") = {1}
        /\ messages[Len(messages)] = [role |-> "user", content |-> QueryUsed]
        /\ {i \in 1..Len(messages) : messages[i].content = QueryUsed}
              = {Len(messages)}

\* the messages between the system message and the current query
PriorTurns == SubSeq(messages, 2, Len(messages) - 1)

\* the history as the client sent it: nothing when absent or not an array
SentHistory ==
    IF req.body.history.kind = "array" THEN req.body.history.items ELSE <<>>

DoneSources == frames[Len(frames) - 1].sources

\* C13: the sources of the done frame hold exactly one {source, snippet}
\* entry per chunk that retrieval retained, in retrieval order, and each
\* snippet is the text of its chunk that was used to build the context.
C13_SourcesMirrorChunks ==
    pc = "closed" =>
        /\ Len(DoneSources) = Len(vectors)
        /\ \A i \in 1..Len(vectors) :
              /\ DoneSources[i].source = vectors[i].source
              /\ DoneSources[i].snippet = SnippetOf(vectors[i])

\* a chunk passes the floor when it has no score or its score is not below
\* the floor
PassesFloor(m) == ~m.hasScore \/ m.score >= ScoreFloor

\* C14: the relevance filter of part_002 retains exactly the chunks of the
\* reply that have no score or a score not below 0.75, in the order of the
\* reply: a chunk at the floor is retained, a chunk at 0.5 is dropped.
C14_FloorInclusive ==
    (variant = "part_002" /\ retrievalOutcome = "ok") =>
        vectors = SelectSeq(matches, PassesFloor)

\* the text each retained chunk contributes, in retrieval order
ChunkTexts ==
    [i \in 1..Len(vectors) |->
        IF vectors[i].text_snippet # <<>> THEN vectors[i].text_snippet
        ELSE vectors[i].text]

\* the positions at which a non-empty text occurs for the first time
FirstPositions(ts) ==
    {i \in 1..Len(ts) : ts[i] # <<>> /\ \A j \in 1..(i - 1) : ts[j] # ts[i]}

\* the texts at their first positions, in order
FirstOccurrences(ts) ==
    LET P == FirstPositions(ts)
    IN  [k \in 1..Cardinality(P) |->
            ts[CHOOSE i \in P : Cardinality({j \in P : j <= i}) = k]]

CasePairs ==
    {<<"A","a">>, <<"B","b">>, <<"C","c">>, <<"P","p">>, <<"S","s">>,
     <<"T","t">>, <<"Y","y">>}

SameLetter(a, b) == a = b \/ <<a, b>> \in CasePairs \/ <<b, a>> \in CasePairs

\* keyword k occurs in q at some position, letter case ignored
Mentions(q, k) ==
    \E i \in 1..(Len(q) - Len(k) + 1) :
        \A j \in 1..Len(k) : SameLetter(q[i + j - 1], k[j])

\* the request passed both guards and retrieval was started
PassedGuards == retrievalCalls > 0 \/ embedCalls > 0

\* C16: in the variants that classify, every query that passes the guards
\* gets a tier, and the tier is complex exactly when at least one keyword of
\* the variant occurs in the query as a substring, letter case ignored.
C16_ComplexIffKeyword ==
    (variant # "part_001" /\ PassedGuards) =>
        /\ tier \in {"simple", "complex"}
        /\ tier = "complex" <=>
              \E k \in ComplexKeywords(variant) : Mentions(QueryUsed, k)

\* a keyword in mixed case made the query complex
C16_Witness ==
    /\ variant = "part_000"
    /\ req.body.query = qAudit
    /\ tier = "complex"

\* the model is one of the two tier models and follows the tier
FollowsTier ==
    /\ model \in {SCOUT_MODEL, COMPLEX_MODEL}
    /\ model = SCOUT_MODEL <=> tier = "simple"
    /\ model = COMPLEX_MODEL <=> tier = "complex"

\* C17 as stated: the model passed to the generation call is the lightweight
\* model exactly when the tier of the query is simple and the
\* higher-capability model exactly when it is complex.
C17_ModelFollowsTier == genCalls > 0 => FollowsTier

\* C17 amended: in the variants that classify, the model passed to the
\* generation call follows the tier; part_001 has no tier and passes its one
\* model for every query.
C17_ModelFollowsTierOrFixed ==
    genCalls > 0 =>
        IF variant = "part_001" THEN model = MODEL /\ tier = "none"
        ELSE FollowsTier

\* a complex query reached the generation call of a classifying variant
C17_Witness ==
    /\ genCalls = 1
    /\ variant = "part_002"
    /\ req.body.query = qScrutiny
    /\ tier = "complex"
    /\ model = COMPLEX_MODEL

(* ------------------- claims on markers and disconnects ------------------ *)

\* C18: in incremental mode no token frame written to the client contains
\* the text with which the backend ends its own stream.
C18_MarkerNotForwarded ==
    variant = "index_raw" =>
        \A i \in 1..Len(frames) :
            frames[i].type = "token" => ~Contains(frames[i].token, Marker)

\* the client went away and start() has ended
StoppedAfterDisconnect == clientGone /\ pc = "errored"

\* C19: once the client has disconnected the pipeline writes no further
\* frame and starts no further read of the backend stream, and when it has
\* stopped the reader of the backend stream is no longer held.
C19_DisconnectReleasesBackend ==
    /\ clientGone => Len(frames) = writtenAtDrop
    /\ StoppedAfterDisconnect => reader # "locked"

(* -------------------- claims on the HTTP response ---------------------- *)

\* the generation call of a complete-text variant was made and returned
GeneratedText ==
    /\ variant # "index_raw"
    /\ genCalls > 0
    /\ genError = "none"
    /\ pc # "awaitGen"

ReadSoFar == SubSeq(src, 1, consumed)

\* C21: in incremental mode the token frames carry only the delta of each
\* complete backend event: while the event is incomplete no token frame
\* carries any of its text, and once it is complete the token frames spell
\* the delta without the prefix, the envelope or the delimiter.
C21_OnlyCompleteDeltas ==
    (variant = "index_raw" /\ src = BackendEvent(<<"x">>)) =>
        TokenText = IF ReadSoFar = src THEN <<"x">> ELSE <<>>

\* frames written to the response stream that the client has not taken
Queued == Len(frames) - delivered

\* C23: while the raw variant streams, the frames it has written and the
\* client has not taken stay within the high-water mark of the response
\* stream, one frame: it reads no further chunk of the backend while the
\* client is not consuming.
C23_BoundedHolding ==
    (variant = "index_raw" /\ pc = "streaming") => Queued <= 1

(* ------------------ claims on the complete-text mode ------------------- *)

\* part_002 built a context from what retrieval returned
BuiltContext == variant = "part_002" /\ retrievalOutcome \in {"ok", "failure"}

\* C24: in part_002, whenever the built context is empty or shorter than 200
\* characters the generation backend is never invoked and the response is
\* one non-streaming 200 body with the fixed insufficient-context answer and
\* no frame; whenever the context has at least 200 characters generation is
\* invoked.
C24_MinimumContext ==
    BuiltContext =>
        IF Len(context) < 200
        THEN /\ genCalls = 0
             /\ pc = "responded"
             /\ resp = InsufficientResponse
             /\ frames = <<>>
        ELSE genCalls = 1

\* a context of two characters was answered without generation
C24_Witness ==
    /\ BuiltContext
    /\ vectors = <<cShort>>
    /\ Len(context) = 2
    /\ resp = InsufficientResponse
    /\ genCalls = 0

\* C25: in the raw variant the answer field of the done frame equals the
\* concatenation, in emission order, of the token values of all token
\* frames written before it.
C25_DoneAnswerIsTokens ==
    (variant = "index_raw" /\ pc = "closed") =>
        /\ frames[Len(frames) - 1].type = "done"
        /\ frames[Len(frames) - 1].answer = TokenText

\* three reads, one of them ending inside a two-byte character
C25_Witness ==
    /\ variant = "index_raw"
    /\ pc = "closed"
    /\ src = <<"a", "L", "C">>
    /\ Len(frames) = 5
    /\ frames[4].answer = <<"a", "E">>

\* the generation call of a complete-text variant returned a result without
\* any text field
ReturnedNoText == variant # "index_raw" /\ aiResult.field = "none"

\* C26: when the generation call returns normally and its result carries no
\* response text, the client gets a 200 stream whose token frames spell
\* "Unable to generate a response.", followed by one done frame and one
\* sentinel, and no error.
C26_FallbackStreamed ==
    ReturnedNoText =>
        /\ resp = StreamResponse
        /\ pc \in {"streaming", "closed"}
        /\ pc = "closed" => (CompleteStream(frames) /\ TokenText = Fallback)

\* C29: at most one chat request is in flight: a call of sendMessage made
\* while isProcessing is true sends no request and changes nothing the
\* script holds.
C29_OneRequestInFlight ==
    /\ [](inFlight <= 1)
    /\ [][(isProcessing /\ triggers' # triggers)
            => /\ sent' = sent
               /\ UNCHANGED <<cpc, isProcessing, disabled, inputValue,
                              inFlight, responseVars, shown>>]_vars

\* sendMessage was called with a query while a request was in flight, and
\* returned
C29_Witness ==
    /\ lastCall.outcome = "returned"
    /\ lastCall.busy
    /\ Trim(lastCall.query) # <<>>
    /\ inFlight = 1

\* the token values of a frame sequence, joined in order
RECURSIVE TokenTextOf(_)
TokenTextOf(fs) ==
    IF fs = <<>> THEN <<>>
    ELSE (IF Head(fs).type = "token" THEN Head(fs).token ELSE <<>>)
         \o TokenTextOf(Tail(fs))

\* the sources of the done frame of a frame sequence
DoneSourcesOf(fs) ==
    (CHOOSE f \in {fs[i] : i \in 1..Len(fs)} : f.type = "done").sources

\* the whole body has been read and the loop has not yet seen the end
BodyRead == cpc = "reading" /\ rpos = Len(wire)

\* C27: for every frame sequence the worker sends and every way its bytes
\* are cut into chunks, once the client has read the whole body the text it
\* holds before the disclaimer is the token values joined in order and its
\* sources are those of the done frame.
C27_ParserReassembles ==
    \A fs \in ClientFrameSeqs :
        (wire = Serialize(fs) /\ BodyRead)
            => /\ finalText = TokenTextOf(fs)
               /\ csources = DoneSourcesOf(fs)

\* a body with two tokens, one of them with a character of two bytes and a
\* line feed, has been read to its end
C27_Witness ==
    /\ BodyRead
    /\ wire = Serialize(<<TokenFrame(<<"E", "\n">>), TokenFrame(<<"a">>),
                          SourcesDone, Sentinel>>)
    /\ finalText = <<"E", "\n", "a">>
    /\ csources = <<Entry("1", "x")>>

\* C28: once the client has read the sentinel, no later frame changes the
\* text or the sources it holds.
C28_NothingAfterSentinel ==
    atDone.seen => (finalText = atDone.text /\ csources = atDone.sources)

\* C22: an event that ends with the delimiter and whose text does not parse
\* is not dropped: it stays in the buffer until the rest of it arrives, so
\* the body cut in two by a blank line yields its token in the end.
C22_UnparsedEventKept ==
    (wire = CutWire /\ BodyRead) => finalText = <<"a">>

SentEntries == {Entry("1", "x"), Entry("2", "y")}

\* C31: the client reads from an entry of sources only fields the worker
\* writes into it, so every source the page shows with an answer carries
\* the snippet the worker sent for the source of that name.
C31_ShownSnippetIsSent ==
    shown = "answer" =>
        \A i \in 1..Len(shownSources) :
            \E e \in SentEntries :
                /\ shownSources[i].source = e.source
                /\ shownSources[i].snippet = e.snippet

====
